---------------------------- MODULE Spec2Model ----------------------------
(***************************************************************************)
(* A model of go-simstore: the 16-table permutation index for 64-bit       *)
(* simhash fingerprints (package simstore) and the simd server that loads, *)
(* publishes and queries it.                                               *)
(*                                                                         *)
(* A uint64 is a tuple of four 16-bit limbs, most significant first, so    *)
(* that <<\Hffff, \Hfff0, 0, 0>> reads as the Go literal                   *)
(* 0xfffffff000000000.  All arithmetic is carried out modulo 2^64 on the   *)
(* limbs.                                                                  *)
(***************************************************************************)
EXTENDS Integers, Sequences, FiniteSets, TLC

VARIABLES
    tables,     \* Store.tables, [0..15 -> sequence of entries]
    pc,         \* where the goroutine that owns the Store is
    log,        \* the <<sig, docid>> passed to Add so far, in order
    finished,   \* Len(log) when Finish last returned, -1 before
    query,      \* the signature of the Find that returned last
    result,     \* the []uint64 that Find returned
    wg,         \* Finish: the counter of its sync.WaitGroup
    tasks,      \* Finish: the tables whose sorting goroutine has not run yet
    snap,       \* Finish: the tables as they were when it was called
    calls,      \* Finish: how many calls have returned
    finders,    \* the frames of the concurrent Store.Find calls
    wx, wy,     \* a pair of uint64 inputs of the pure functions
    wd,         \* distance(wx, wy)
    flips,      \* the bit positions in which wy was made to differ from wx
    config,     \* simd: the published *Config (0 is nil)
    heap,       \* simd: the stores allocated by loadConfig
    loaders,    \* simd: the frames of the loadConfig calls
    hup,        \* simd: the SIGHUP goroutine
    handlers,   \* simd: the frames of the searchHandler calls
    serving,    \* simd: main has reached http.ListenAndServe
    storeSize   \* simd: the flag -size

storeVars == <<tables, pc, log, finished, query, result>>

finishVars == <<wg, tasks, snap, calls>>

wordVars == <<wx, wy, wd, flips>>

simdVars == <<config, heap, loaders, hup, handlers, serving, storeSize>>

vars == <<storeVars, finishVars, finders, wordVars, simdVars>>

-----------------------------------------------------------------------------
(* uint64 arithmetic *)

Limb == 2 ^ 16

Pow2(n) == 2 ^ n

RECURSIVE AndBits(_, _)
AndBits(a, b) ==
    IF a = 0 \/ b = 0 THEN 0
    ELSE (a % 2) * (b % 2) + 2 * AndBits(a \div 2, b \div 2)

\* the bitwise and of two bytes, tabulated once
AndByte == [a \in 0..255 |-> [b \in 0..255 |-> AndBits(a, b)]]

And16(a, b) ==
    AndByte[a \div 256][b \div 256] * 256 + AndByte[a % 256][b % 256]

Or16(a, b) == a + b - And16(a, b)

Xor16(a, b) == a + b - 2 * And16(a, b)

\* x & y
AND(x, y) == <<And16(x[1], y[1]), And16(x[2], y[2]), And16(x[3], y[3]), And16(x[4], y[4])>>

\* x | y
OR(x, y) == <<Or16(x[1], y[1]), Or16(x[2], y[2]), Or16(x[3], y[3]), Or16(x[4], y[4])>>

\* x ^ y
XOR(x, y) == <<Xor16(x[1], y[1]), Xor16(x[2], y[2]), Xor16(x[3], y[3]), Xor16(x[4], y[4])>>

\* limb j of x counted from the least significant one; 0 outside the word
LimbAt(x, j) == IF j \in 0..3 THEN x[4 - j] ELSE 0

\* x >> n for 0 <= n < 64
SHR(x, n) ==
    LET q == n \div 16
        r == n % 16
        at(j) == (LimbAt(x, j + q) \div Pow2(r))
                 + (LimbAt(x, j + q + 1) % Pow2(r)) * Pow2(16 - r)
    IN  <<at(3), at(2), at(1), at(0)>>

\* x << n for 0 <= n < 64, the bits shifted out of the word are lost
SHL(x, n) ==
    LET q == n \div 16
        r == n % 16
        at(j) == ((LimbAt(x, j - q) % Pow2(16 - r)) * Pow2(r))
                 + (LimbAt(x, j - q - 1) \div Pow2(16 - r))
    IN  <<at(3), at(2), at(1), at(0)>>

\* x + y modulo 2^64
ADD(x, y) ==
    LET s0 == x[4] + y[4]
        s1 == x[3] + y[3] + (s0 \div Limb)
        s2 == x[2] + y[2] + (s1 \div Limb)
        s3 == x[1] + y[1] + (s2 \div Limb)
    IN  <<s3 % Limb, s2 % Limb, s1 % Limb, s0 % Limb>>

\* x - y modulo 2^64
SUB(x, y) ==
    LET d0 == x[4] - y[4]
        b0 == IF d0 < 0 THEN 1 ELSE 0
        d1 == x[3] - y[3] - b0
        b1 == IF d1 < 0 THEN 1 ELSE 0
        d2 == x[2] - y[2] - b1
        b2 == IF d2 < 0 THEN 1 ELSE 0
        d3 == x[1] - y[1] - b2
    IN  <<d3 % Limb, d2 % Limb, d1 % Limb, d0 % Limb>>

\* byte k of x counted from the least significant one
ByteAt(x, k) ==
    LET l == LimbAt(x, k \div 2)
    IN  IF k % 2 = 0 THEN l % 256 ELSE l \div 256

\* column k of the schoolbook product of the bytes of x and y
RECURSIVE MulColumn(_, _, _, _)
MulColumn(x, y, k, i) ==
    IF i > k THEN 0
    ELSE ByteAt(x, i) * ByteAt(y, k - i) + MulColumn(x, y, k, i + 1)

\* x * y modulo 2^64, schoolbook on bytes
MUL(x, y) ==
    LET a0 == MulColumn(x, y, 0, 0)
        a1 == MulColumn(x, y, 1, 0) + (a0 \div 256)
        a2 == MulColumn(x, y, 2, 0) + (a1 \div 256)
        a3 == MulColumn(x, y, 3, 0) + (a2 \div 256)
        a4 == MulColumn(x, y, 4, 0) + (a3 \div 256)
        a5 == MulColumn(x, y, 5, 0) + (a4 \div 256)
        a6 == MulColumn(x, y, 6, 0) + (a5 \div 256)
        a7 == MulColumn(x, y, 7, 0) + (a6 \div 256)
    IN  <<(a7 % 256) * 256 + (a6 % 256), (a5 % 256) * 256 + (a4 % 256),
          (a3 % 256) * 256 + (a2 % 256), (a1 % 256) * 256 + (a0 % 256)>>

\* x < y, unsigned
LT(x, y) ==
    \/ x[1] < y[1]
    \/ x[1] = y[1] /\ x[2] < y[2]
    \/ x[1] = y[1] /\ x[2] = y[2] /\ x[3] < y[3]
    \/ x[1] = y[1] /\ x[2] = y[2] /\ x[3] = y[3] /\ x[4] < y[4]

\* x >= y, unsigned
GE(x, y) == ~LT(x, y)

Zero64 == <<0, 0, 0, 0>>

Ones64 == <<\Hffff, \Hffff, \Hffff, \Hffff>>

-----------------------------------------------------------------------------
(* distance *)

\* distance with the sum of the 2-bit fields parsed as C parses it:
\* (x>>2) & (0x3333333333333333 + x) & 0x3333333333333333
distanceCPrecedence(v1, v2) ==
    LET m33 == <<\H3333, \H3333, \H3333, \H3333>>
        x0 == XOR(v1, v2)
        x1 == SUB(x0, AND(SHR(x0, 1), <<\H5555, \H5555, \H5555, \H5555>>))
        x2 == AND(AND(SHR(x1, 2), ADD(m33, x1)), m33)
        x3 == ADD(x2, SHR(x2, 4))
        x4 == AND(x3, <<\H0f0f, \H0f0f, \H0f0f, \H0f0f>>)
        x5 == MUL(x4, <<\H0101, \H0101, \H0101, \H0101>>)
    IN  SHR(x5, 56)[4]

\* the hamming distance between v1 and v2
distance(v1, v2) ==
    LET x0 == XOR(v1, v2)
        x1 == SUB(x0, AND(SHR(x0, 1), <<\H5555, \H5555, \H5555, \H5555>>))
        x2 == ADD(AND(SHR(x1, 2), <<\H3333, \H3333, \H3333, \H3333>>),
                  AND(x1, <<\H3333, \H3333, \H3333, \H3333>>))
        x3 == ADD(x2, SHR(x2, 4))
        x4 == AND(x3, <<\H0f0f, \H0f0f, \H0f0f, \H0f0f>>)
        x5 == MUL(x4, <<\H0101, \H0101, \H0101, \H0101>>)
    IN  SHR(x5, 56)[4]

-----------------------------------------------------------------------------
(* the input domain of the store *)

\* the <<sig, docid>> lines a caller may pass to Add
Records ==
    { <<Zero64, 1>>,
      <<<<0, 0, 0, \H000f>>, 1>>,
      <<<<\Haaaa, \Haaaa, \Haaaa, \Haaaa>>, 3>>,
      <<<<\H0001, \H0001, \H0001, 0>>, 2>> }

\* the signatures a caller may pass to Find
Queries ==
    { Zero64,
      <<0, 0, 0, \H0001>>,
      <<\Haaaa, \Haaaa, \Haaaa, \Haaa1>>,
      <<\Haaaa, \Haaaa, \Haaaa, \Haa00>>,
      <<\H0001, 0, 0, 0>>,
      <<0, \H1000, \H0010, \H0001>> }

Words == {r[1] : r \in Records} \cup Queries

Tables == 0..15

-----------------------------------------------------------------------------
(* the permutations of Add and Find *)

\* sig = (sig << 16) | (sig >> (64 - 16))
Rotate(sig) == OR(SHL(sig, 16), SHR(sig, 64 - 16))

RECURSIVE Rotated(_, _)
\* sig at the top of iteration i of the loop over the four rotations
Rotated(sig, i) == IF i = 0 THEN sig ELSE Rotate(Rotated(sig, i - 1))

\* Add with the third swap taking the block at [12..24) again instead of [0..12)
AddPermuteRepeatedBlock(sig, v) ==
    CASE v = 0 -> sig
      [] v = 1 -> OR(OR(AND(sig, <<\Hffff, \H0000, \H00ff, \Hffff>>),
                        SHR(AND(sig, <<\H0000, \Hfff0, \H0000, \H0000>>), 12)),
                     SHL(AND(sig, <<\H0000, \H000f, \Hff00, \H0000>>), 12))
      [] v = 2 -> OR(OR(AND(sig, <<\Hffff, \H000f, \Hff00, \H0fff>>),
                        SHR(AND(sig, <<\H0000, \Hfff0, \H0000, \H0000>>), 24)),
                     SHL(AND(sig, <<\H0000, \H0000, \H00ff, \Hf000>>), 24))
      [] v = 3 -> OR(OR(AND(sig, <<\Hffff, \H000f, \Hff00, \H0fff>>),
                        SHR(AND(sig, <<\H0000, \Hfff0, \H0000, \H0000>>), 24)),
                     SHL(AND(sig, <<\H0000, \H0000, \H00ff, \Hf000>>), 24))

\* the hash p that Add appends to the v-th table of an iteration
AddPermute(sig, v) ==
    CASE v = 0 -> sig
      [] v = 1 -> OR(OR(AND(sig, <<\Hffff, \H0000, \H00ff, \Hffff>>),
                        SHR(AND(sig, <<\H0000, \Hfff0, \H0000, \H0000>>), 12)),
                     SHL(AND(sig, <<\H0000, \H000f, \Hff00, \H0000>>), 12))
      [] v = 2 -> OR(OR(AND(sig, <<\Hffff, \H000f, \Hff00, \H0fff>>),
                        SHR(AND(sig, <<\H0000, \Hfff0, \H0000, \H0000>>), 24)),
                     SHL(AND(sig, <<\H0000, \H0000, \H00ff, \Hf000>>), 24))
      [] v = 3 -> OR(OR(AND(sig, <<\Hffff, \H000f, \Hffff, \Hf000>>),
                        SHR(AND(sig, <<\H0000, \Hfff0, \H0000, \H0000>>), 36)),
                     SHL(AND(sig, <<\H0000, \H0000, \H0000, \H0fff>>), 36))

\* the hash that Add appends to table t
AddHash(sig, t) == AddPermute(Rotated(sig, t \div 4), t % 4)

\* the probe p that Find passes to the v-th table of an iteration
FindPermute(sig, v) ==
    CASE v = 0 -> sig
      [] v = 1 -> OR(OR(AND(sig, <<\Hffff, \H0000, \H00ff, \Hffff>>),
                        SHR(AND(sig, <<\H0000, \Hfff0, \H0000, \H0000>>), 12)),
                     SHL(AND(sig, <<\H0000, \H000f, \Hff00, \H0000>>), 12))
      [] v = 2 -> OR(OR(AND(sig, <<\Hffff, \H000f, \Hff00, \H0fff>>),
                        SHR(AND(sig, <<\H0000, \Hfff0, \H0000, \H0000>>), 24)),
                     SHL(AND(sig, <<\H0000, \H0000, \H00ff, \Hf000>>), 24))
      [] v = 3 -> OR(OR(AND(sig, <<\Hffff, \H000f, \Hffff, \Hf000>>),
                        SHR(AND(sig, <<\H0000, \Hfff0, \H0000, \H0000>>), 36)),
                     SHL(AND(sig, <<\H0000, \H0000, \H0000, \H0fff>>), 36))

\* the probe that Find passes to table t
FindProbe(sig, t) == FindPermute(Rotated(sig, t \div 4), t % 4)

\* the permutations of the words of the input domain, tabulated once
AddHashOf == [sig \in Words |-> [t \in Tables |-> AddHash(sig, t)]]

FindProbeOf == [sig \in Words |-> [t \in Tables |-> FindProbe(sig, t)]]

-----------------------------------------------------------------------------
(* table *)

\* const mask = 0xfffffff000000000
mask == <<\Hffff, \Hfff0, \H0000, \H0000>>

\* the radius of the search
Radius == 3

\* a table is a sequence of entries, t[1] being the Go t[0]
Entry(h, d) == [hash |-> h, docid |-> d]

Less(t, i, j) == LT(t[i].hash, t[j].hash)

Swap(t, i, j) == [t EXCEPT ![i] = t[j], ![j] = t[i]]

RECURSIVE Sink(_, _)
\* for j > a && Less(j, j-1) { Swap(j, j-1); j-- }
Sink(t, j) ==
    IF j > 1 /\ Less(t, j, j - 1) THEN Sink(Swap(t, j, j - 1), j - 1) ELSE t

RECURSIVE InsertionSort(_, _)
InsertionSort(t, i) ==
    IF i > Len(t) THEN t ELSE InsertionSort(Sink(t, i), i + 1)

\* a sort that returns the table as it was
SortSkipped(t) == t

\* sort.Sort(t): on the short tables of this model (fewer than 7 entries)
\* every version of the sort package runs its insertion sort
Sort(t) == InsertionSort(t, 2)

RECURSIVE Search(_, _, _, _)
\* sort.Search(len(t), func(i int) bool { return t[i].hash >= prefix }),
\* the bisection of the interval [i, j) of Go indices
Search(t, prefix, i, j) ==
    IF i < j
    THEN LET h == (i + j) \div 2
         IN  IF ~GE(t[h + 1].hash, prefix)
             THEN Search(t, prefix, h + 1, j)
             ELSE Search(t, prefix, i, h)
    ELSE i

RECURSIVE ScanAll(_, _, _, _)
\* the scan of find without the test of the distance
ScanAll(t, sig, prefix, i) ==
    IF i < Len(t) /\ AND(t[i + 1].hash, mask) = prefix
    THEN <<t[i + 1].docid>> \o ScanAll(t, sig, prefix, i + 1)
    ELSE <<>>

RECURSIVE Scan(_, _, _, _)
\* for i < len(t) && t[i].hash&mask == prefix { ...; i++ }, i a Go index
Scan(t, sig, prefix, i) ==
    IF i < Len(t) /\ AND(t[i + 1].hash, mask) = prefix
    THEN (IF distance(t[i + 1].hash, sig) <= Radius THEN <<t[i + 1].docid>> ELSE <<>>)
         \o Scan(t, sig, prefix, i + 1)
    ELSE <<>>

\* find that returns every entry sharing the prefix
findNoDistance(t, sig) ==
    LET prefix == AND(sig, mask)
    IN  ScanAll(t, sig, prefix, Search(t, prefix, 0, Len(t)))

\* table.find
find(t, sig) ==
    LET prefix == AND(sig, mask)
    IN  Scan(t, sig, prefix, Search(t, prefix, 0, Len(t)))

-----------------------------------------------------------------------------
(* Store *)

EmptyStore == [t \in Tables |-> <<>>]

\* Store.Add
StoreAdd(tabs, sig, docid) ==
    [t \in Tables |-> Append(tabs[t], Entry(AddHashOf[sig][t], docid))]

\* Store.Finish, once wg.Wait has returned
StoreFinish(tabs) == [t \in Tables |-> Sort(tabs[t])]

RECURSIVE Collect(_, _, _)
\* ids = append(ids, s.tables[t].find(p)...) for the tables from t on
Collect(tabs, sig, t) ==
    IF t > 15 THEN <<>>
    ELSE find(tabs[t], FindProbeOf[sig][t]) \o Collect(tabs, sig, t + 1)

Range(s) == {s[i] : i \in 1..Len(s)}

\* the sequences that list every element of S once, in any order
Enumerations(S) ==
    {s \in [1..Cardinality(S) -> S] : \A i, j \in 1..Cardinality(S) : i # j => s[i] # s[j]}

\* Find returning the ids as collected from the tables
NotDeduplicated(ids) == {ids}

\* the slice Find returns for the collected ids: the keys of the map uniq,
\* in the order the iteration over the map happens to take
Deduplicated(ids) == Enumerations(Range(ids))

\* the set of docids Store.Find returns
StoreFind(tabs, sig) == Range(Collect(tabs, sig, 0))

-----------------------------------------------------------------------------
(* the variables a specification leaves aside *)

NoFinish == wg = 0 /\ tasks = {} /\ snap = EmptyStore /\ calls = 0

NoFinders == finders = <<>>

NoWords == wx = Zero64 /\ wy = Zero64 /\ wd = 0 /\ flips = {}

NoSimd ==
    /\ config = 0 /\ heap = <<>> /\ loaders = <<>>
    /\ hup = "none" /\ handlers = <<>> /\ serving = FALSE /\ storeSize = 6

NoStore ==
    /\ tables = EmptyStore /\ pc = "idle" /\ log = <<>>
    /\ finished = -1 /\ query = Zero64 /\ result = <<>>

-----------------------------------------------------------------------------
(* Spec: one goroutine builds and queries a Store *)

MaxAdds == 3

Init == NoStore /\ NoFinish /\ NoFinders /\ NoWords /\ NoSimd

\* s.Add(r[1], r[2])
Add(r) ==
    /\ pc = "idle"
    /\ Len(log) < MaxAdds
    /\ tables' = StoreAdd(tables, r[1], r[2])
    /\ log' = Append(log, r)
    /\ UNCHANGED <<pc, finished, query, result>>
    /\ UNCHANGED <<finishVars, finders, wordVars, simdVars>>

\* s.Finish(), from the call to the return
Finish ==
    /\ pc = "idle"
    /\ tables' = StoreFinish(tables)
    /\ finished' = Len(log)
    /\ UNCHANGED <<pc, log, query, result>>
    /\ UNCHANGED <<finishVars, finders, wordVars, simdVars>>

\* ids := s.Find(q)
Find(q) ==
    /\ pc = "idle"
    /\ \E ids \in Deduplicated(Collect(tables, q, 0)) : result' = ids
    /\ query' = q
    /\ pc' = "found"
    /\ UNCHANGED <<tables, log, finished>>
    /\ UNCHANGED <<finishVars, finders, wordVars, simdVars>>

\* the caller is done with the ids
Consume ==
    /\ pc = "found"
    /\ pc' = "idle"
    /\ query' = Zero64
    /\ result' = <<>>
    /\ UNCHANGED <<tables, log, finished>>
    /\ UNCHANGED <<finishVars, finders, wordVars, simdVars>>

Next ==
    \/ \E r \in Records : Add(r)
    \/ Finish
    \/ \E q \in Queries : Find(q)
    \/ Consume

Spec == Init /\ [][Next]_vars

-----------------------------------------------------------------------------
(* the claims about a Store built and queried by one goroutine *)

RECURSIVE Ones16(_)
Ones16(a) == IF a = 0 THEN 0 ELSE (a % 2) + Ones16(a \div 2)

\* the number of bit positions in which x and y differ
Hamming(x, y) ==
    LET d == XOR(x, y)
    IN  Ones16(d[1]) + Ones16(d[2]) + Ones16(d[3]) + Ones16(d[4])

\* Find has returned from a Store whose Adds all came before its last Finish
Answered == pc = "found" /\ finished = Len(log)

\* C1: after Adds followed by Finish, Find(q) returns the docid of every
\* added signature within Hamming distance 3 of q
C1_Recall ==
    Answered =>
        \A i \in 1..Len(log) :
            Hamming(log[i][1], query) <= 3 => log[i][2] \in Range(result)

\* a docid is returned for a signature exactly 3 bits away from the query,
\* out of a table of three entries that Finish had to reorder
C1_Witness ==
    /\ Answered
    /\ Len(log) = 3
    /\ tables[0] # [i \in 1..3 |-> Entry(log[i][1], log[i][2])]
    /\ \E i \in 1..3 :
           /\ Hamming(log[i][1], query) = 3
           /\ log[i][2] \in Range(result)
           /\ \A j \in 1..3 : log[j][2] = log[i][2] => j = i

\* C2: after Adds followed by Finish, every docid Find(q) returns was added
\* with at least one signature within Hamming distance 3 of q
C2_NoFalseAcceptance ==
    Answered =>
        \A d \in Range(result) :
            \E i \in 1..Len(log) :
                log[i][2] = d /\ Hamming(log[i][1], query) <= 3

\* a signature 4 bits away from the query shares the 28-bit prefix of table 0
\* with it, and its docid is left out of a result that is not empty
C2_Witness ==
    /\ Answered
    /\ result # <<>>
    /\ \E i \in 1..Len(log) :
           /\ Hamming(log[i][1], query) = 4
           /\ AND(log[i][1], mask) = AND(query, mask)
           /\ log[i][2] \notin Range(result)

\* C3: Find returns each docid at most once
C3_Deduplication ==
    pc = "found" =>
        \A i, j \in 1..Len(result) : result[i] = result[j] => i = j

\* a docid added twice, with two signatures both within distance 3 of the
\* query and found in several tables, is the one element of the result
C3_Witness ==
    /\ Answered
    /\ Len(result) = 1
    /\ Len(Collect(tables, query, 0)) > 2
    /\ \E i, j \in 1..Len(log) :
           /\ i # j
           /\ log[i][2] = log[j][2]
           /\ log[i][1] # log[j][1]
           /\ Hamming(log[i][1], query) <= 3
           /\ Hamming(log[j][1], query) <= 3
           /\ log[i][2] \in Range(result)

\* C4: an Add after Finish appends nothing to the tables of the ready Store,
\* and no Find returns before a Finish
C4_PhaseSafety ==
    /\ finished >= 0 => Len(log) <= finished
    /\ pc = "found" => finished >= 0

-----------------------------------------------------------------------------
(* SpecFinish: the goroutines of Store.Finish *)

MaxFinish == 2

\* the lines added, in this order, before Finish is called
Lines ==
    << <<<<\Haaaa, \Haaaa, \Haaaa, \Haaaa>>, 3>>,
       <<<<0, 0, 0, \H000f>>, 1>>,
       <<Zero64, 1>> >>

InitFinish == Init

\* the next line is added; lines are added before the first Finish only
AddLine ==
    /\ finished = -1
    /\ Len(log) < Len(Lines)
    /\ Add(Lines[Len(log) + 1])

\* s.Finish() is called, on the empty Store or after the last line:
\* wg.Add(1) and go func(i) for every table, up to wg.Wait()
FinishCall ==
    /\ pc = "idle"
    /\ calls < MaxFinish
    /\ Len(log) \in {0, Len(Lines)}
    /\ pc' = "waiting"
    /\ wg' = wg + Cardinality(Tables)
    /\ tasks' = Tables
    /\ snap' = tables
    /\ UNCHANGED <<tables, log, finished, query, result, calls>>
    /\ UNCHANGED <<finders, wordVars, simdVars>>

\* the goroutine of table i: sort.Sort(s.tables[i]); wg.Done()
SortTask(i) ==
    /\ i \in tasks
    /\ tables' = [tables EXCEPT ![i] = Sort(tables[i])]
    /\ tasks' = tasks \ {i}
    /\ wg' = wg - 1
    /\ UNCHANGED <<pc, log, finished, query, result, snap, calls>>
    /\ UNCHANGED <<finders, wordVars, simdVars>>

\* Finish returning without the wg.Wait()
FinishReturnNoWait ==
    /\ pc = "waiting"
    /\ pc' = "idle"
    /\ calls' = calls + 1
    /\ finished' = Len(log)
    /\ UNCHANGED <<tables, log, query, result, wg, tasks, snap>>
    /\ UNCHANGED <<finders, wordVars, simdVars>>

\* wg.Wait() returns, and Finish with it
FinishReturn ==
    /\ pc = "waiting"
    /\ wg = 0
    /\ pc' = "idle"
    /\ calls' = calls + 1
    /\ finished' = Len(log)
    /\ UNCHANGED <<tables, log, query, result, wg, tasks, snap>>
    /\ UNCHANGED <<finders, wordVars, simdVars>>

NextFinish ==
    \/ AddLine
    \/ FinishCall
    \/ \E i \in Tables : SortTask(i)
    \/ FinishReturn

SpecFinish == InitFinish /\ [][NextFinish]_vars

IsSorted(t) == \A i \in 1..(Len(t) - 1) : ~LT(t[i + 1].hash, t[i].hash)

\* how many times each entry occurs in t
BagOf(t) == [e \in Range(t) |-> Cardinality({i \in 1..Len(t) : t[i] = e})]

\* C5: a call of Finish, the first or a repeated one, returns when no sorting
\* goroutine is left, with every table sorted by hash and holding the entries
\* it held at the call; a repeated call changes the result of no Find
C5_Finish ==
    /\ pc = "waiting" => wg = Cardinality(tasks)
    /\ (pc = "idle" /\ calls > 0) =>
           /\ tasks = {}
           /\ \A t \in Tables :
                  IsSorted(tables[t]) /\ BagOf(tables[t]) = BagOf(snap[t])
           /\ calls > 1 =>
                  \A q \in Queries : StoreFind(tables, q) = StoreFind(snap, q)

\* a repeated Finish has returned on three entries that the first one reordered
C5_Witness ==
    /\ pc = "idle"
    /\ calls = 2
    /\ Len(log) = 3
    /\ tables[0] # [i \in 1..3 |-> Entry(log[i][1], log[i][2])]
    /\ \E q \in Queries : StoreFind(tables, q) # {}

-----------------------------------------------------------------------------
(* SpecFind: concurrent callers of Find on a Store that is ready *)

Callers == {1, 2}

\* the signatures the concurrent callers ask for
CallerQueries ==
    { Zero64,
      <<\Haaaa, \Haaaa, \Haaaa, \Haaa1>>,
      <<0, \H1000, \H0010, \H0001>> }

Outside ==
    [pc |-> "out", sig |-> Zero64, t |-> 0, ids |-> <<>>, ret |-> <<>>, mixed |-> FALSE]

InitFind == NoStore /\ NoFinish /\ NoWords /\ NoSimd /\ finders = [c \in Callers |-> Outside]

\* the one Finish that ends the build, of the empty Store or after the last line
FinishOnce == finished = -1 /\ Len(log) \in {0, Len(Lines)} /\ Finish

\* caller c enters s.Find(q) on the ready Store: var ids []uint64; var t int
FindCall(c, q) ==
    /\ finished >= 0
    /\ finders[c].pc = "out"
    /\ finders' = [finders EXCEPT ![c] = [Outside EXCEPT !.pc = "in", !.sig = q]]
    /\ UNCHANGED <<storeVars, finishVars, wordVars, simdVars>>

\* the callers that are inside Find, between two of their probes, while c probes
Overtaken(c) == {d \in Callers \ {c} : finders[d].pc = "in" /\ finders[d].t > 0}

\* caller c probes its next table: ids = append(ids, s.tables[t].find(p)...); t++
FindStep(c) ==
    /\ finders[c].pc = "in"
    /\ finders[c].t <= 15
    /\ LET f == finders[c]
           found == find(tables[f.t], FindProbeOf[f.sig][f.t])
       IN  finders' = [d \in Callers |->
                IF d = c
                THEN [f EXCEPT !.ids = f.ids \o found, !.t = f.t + 1]
                ELSE IF d \in Overtaken(c)
                     THEN [finders[d] EXCEPT !.mixed = TRUE]
                     ELSE finders[d]]
    /\ UNCHANGED <<storeVars, finishVars, wordVars, simdVars>>

RECURSIVE IdsInFlight(_)
\* the ids collected so far by the callers of the set S
IdsInFlight(S) ==
    IF S = {} THEN <<>>
    ELSE LET d == CHOOSE x \in S : TRUE
         IN  finders[d].ids \o IdsInFlight(S \ {d})

\* a return that deduplicates through one map uniq shared by the calls in flight
FindReturnSharedUniq(c) ==
    /\ finders[c].pc = "in"
    /\ finders[c].t = 16
    /\ \E r \in Deduplicated(IdsInFlight({d \in Callers : finders[d].pc = "in"})) :
           finders' = [finders EXCEPT ![c].pc = "done", ![c].ret = r]
    /\ UNCHANGED <<storeVars, finishVars, wordVars, simdVars>>

\* caller c deduplicates its ids and returns them
FindReturn(c) ==
    /\ finders[c].pc = "in"
    /\ finders[c].t = 16
    /\ \E r \in Deduplicated(finders[c].ids) :
           finders' = [finders EXCEPT ![c].pc = "done", ![c].ret = r]
    /\ UNCHANGED <<storeVars, finishVars, wordVars, simdVars>>

\* caller c is done with the ids
FindLeave(c) ==
    /\ finders[c].pc = "done"
    /\ finders' = [finders EXCEPT ![c] = Outside]
    /\ UNCHANGED <<storeVars, finishVars, wordVars, simdVars>>

NextFind ==
    \/ AddLine
    \/ FinishOnce
    \/ \E c \in Callers, q \in CallerQueries : FindCall(c, q)
    \/ \E c \in Callers : FindStep(c)
    \/ \E c \in Callers : FindReturn(c)
    \/ \E c \in Callers : FindLeave(c)

SpecFind == InitFind /\ [][NextFind]_vars

\* C6: once the Store is ready, the steps of concurrent Finds leave the tables
\* as they are, and every call returns the docids it would return alone
C6_ReadOnly ==
    /\ [][finished >= 0 => tables' = tables]_vars
    /\ [](\A c \in Callers :
             finders[c].pc = "done" =>
                 Range(finders[c].ret) = StoreFind(tables, finders[c].sig))

\* a call has returned docids after another call, with another query, probed
\* tables between two of its own probes
C6_Witness ==
    \E c, d \in Callers :
        /\ finders[c].pc = "done"
        /\ finders[c].mixed
        /\ finders[c].ret # <<>>
        /\ finders[d].pc = "in"
        /\ finders[d].sig # finders[c].sig
        /\ finders[d].ids # <<>>

-----------------------------------------------------------------------------
(* SpecDist: distance on pairs of words *)

MaxFlips == 1

\* the word with bit i set
Bit(i) == SHL(<<0, 0, 0, 1>>, i)

DistWords ==
    { Zero64,
      Ones64,
      <<\Haaaa, \Haaaa, \Haaaa, \Haaaa>>,
      <<\H0123, \H4567, \H89ab, \Hcdef>>,
      <<\Hffff, \Hffff, \H0000, \H0000>>,
      <<\H8000, \H0000, \H0000, \H0001>>,
      <<\H0000, \H0000, \H0000, \H0001>> }

InitDist ==
    /\ NoStore /\ NoFinish /\ NoFinders /\ NoSimd
    /\ wx \in DistWords
    /\ wy \in DistWords
    /\ wd = distance(wx, wy)
    /\ flips = {}

\* bit i of wy is flipped and the distance to wx is taken again
Flip(i) ==
    /\ Cardinality(flips) < MaxFlips
    /\ i \notin flips
    /\ flips' = flips \cup {i}
    /\ wy' = XOR(wy, Bit(i))
    /\ wd' = distance(wx, wy')
    /\ UNCHANGED <<wx, storeVars, finishVars, finders, simdVars>>

NextDist == \E i \in 0..63 : Flip(i)

SpecDist == InitDist /\ [][NextDist]_vars

\* C8: distance(a, b) is the number of bit positions in which a and b differ
C8_Popcount == wd = Hamming(wx, wy)

\* after a flip the two words differ in all 64 positions
C8_Witness == flips # {} /\ XOR(wx, wy) = Ones64 /\ wd = 64

-----------------------------------------------------------------------------
(* SpecPerm: the permutations on pairs of words at most Radius bits apart *)

PermWords == { <<\H0123, \H4567, \H89ab, \Hcdef>> }

InitPerm ==
    /\ NoStore /\ NoFinish /\ NoFinders /\ NoSimd
    /\ wx \in PermWords
    /\ wy = wx
    /\ wd = 0
    /\ flips = {}

\* wy is made to differ from wx in one more bit, up to Radius bits
Differ(i) ==
    /\ Cardinality(flips) < Radius
    /\ i \notin flips
    /\ flips' = flips \cup {i}
    /\ wy' = XOR(wy, Bit(i))
    /\ UNCHANGED <<wx, wd, storeVars, finishVars, finders, simdVars>>

NextPerm == \E i \in 0..63 : Differ(i)

SpecPerm == InitPerm /\ [][NextPerm]_vars

\* table t holds x, as Add permutes it, under the prefix Find probes it with for y
SamePrefix(x, y, t) == AND(AddHash(x, t), mask) = AND(FindProbe(y, t), mask)

\* C7: for words x and y at most 3 bits apart, one of the 16 tables has the
\* permuted x and the permuted y agree on the top 28 bits
C7_Coverage ==
    Hamming(wx, wy) <= 3 => \E t \in Tables : SamePrefix(wx, wy, t)

\* three bits differ and a single table, one of the last of its rotation, agrees
C7_Witness ==
    /\ Hamming(wx, wy) = 3
    /\ \E t \in Tables :
           /\ t % 4 = 3
           /\ SamePrefix(wx, wy, t)
           /\ \A u \in Tables \ {t} : ~SamePrefix(wx, wy, u)

-----------------------------------------------------------------------------
(* SpecSimd: the simd server loading, publishing and querying stores *)

MaxLoads == 3

MaxLines == 2

\* the goroutines that call loadConfig: main, the SIGHUP loop, a /reload request
Loaders == {"main", "hup", "reload"}

\* the goroutines serving /search
Searchers == {"s1", "s2"}

NotLoading == [pc |-> "idle", store |-> 0]

NotSearching == [pc |-> "idle", store |-> 0]

\* main has parsed its flags and calls loadConfig for the first time
InitSimd ==
    /\ NoStore /\ NoFinish /\ NoFinders /\ NoWords
    /\ config = 0
    /\ heap = <<>>
    /\ loaders = [g \in Loaders |-> IF g = "main" THEN [pc |-> "count", store |-> 0]
                                                    ELSE NotLoading]
    /\ hup = "none"
    /\ handlers = [h \in Searchers |-> NotSearching]
    /\ serving = FALSE
    /\ storeSize \in {6, 4}

\* CurrentConfig().store
CurrentConfig == config

\* the loads that have not allocated their store yet
Entering == {g \in Loaders : loaders[g].pc \in {"count", "new"}}

\* loadConfig of goroutine g returns err to its caller: main exits on an error
\* and serves otherwise, the SIGHUP loop breaks on an error and receives again
\* otherwise, the /reload handler answers with a status either way
Return(g, err) ==
    /\ loaders' = [loaders EXCEPT ![g] =
                       IF g = "main" /\ err THEN [pc |-> "fatal", store |-> 0]
                                            ELSE NotLoading]
    /\ hup' = CASE g = "main" /\ ~err -> "recv"
                [] g = "hup" /\ err -> "exited"
                [] g = "hup" /\ ~err -> "recv"
                [] OTHER -> hup
    /\ serving' = IF g = "main" /\ ~err THEN TRUE ELSE serving

\* a SIGHUP reaches the loop while it receives from sigs
Sighup ==
    /\ hup = "recv"
    /\ Len(heap) + Cardinality(Entering) < MaxLoads
    /\ hup' = "loading"
    /\ loaders' = [loaders EXCEPT !["hup"] = [pc |-> "count", store |-> 0]]
    /\ UNCHANGED <<config, heap, handlers, serving, storeSize>>
    /\ UNCHANGED <<storeVars, finishVars, finders, wordVars>>

\* a request for /reload arrives
ReloadRequest ==
    /\ serving
    /\ loaders["reload"].pc = "idle"
    /\ Len(heap) + Cardinality(Entering) < MaxLoads
    /\ loaders' = [loaders EXCEPT !["reload"] = [pc |-> "count", store |-> 0]]
    /\ UNCHANGED <<config, heap, hup, handlers, serving, storeSize>>
    /\ UNCHANGED <<storeVars, finishVars, finders, wordVars>>

\* totalLines, err := lineCounter(input)
LoadCount(g) ==
    /\ loaders[g].pc = "count"
    /\ \/ /\ loaders' = [loaders EXCEPT ![g].pc = "new"]
          /\ UNCHANGED <<hup, serving>>
       \/ Return(g, TRUE)
    /\ UNCHANGED <<config, heap, handlers, storeSize>>
    /\ UNCHANGED <<storeVars, finishVars, finders, wordVars>>

\* switch storeSize: a new store, or the error of an unknown size
LoadNew(g) ==
    /\ loaders[g].pc = "new"
    /\ \/ /\ storeSize \in {3, 6}
          /\ heap' = Append(heap, [adds |-> 0, finish |-> "no"])
          /\ loaders' = [loaders EXCEPT ![g] = [pc |-> "open", store |-> Len(heap) + 1]]
          /\ UNCHANGED <<hup, serving>>
       \/ /\ storeSize \notin {3, 6}
          /\ Return(g, TRUE)
          /\ UNCHANGED heap
    /\ UNCHANGED <<config, handlers, storeSize>>
    /\ UNCHANGED <<storeVars, finishVars, finders, wordVars>>

\* f, err := os.Open(input)
LoadOpen(g) ==
    /\ loaders[g].pc = "open"
    /\ \/ /\ loaders' = [loaders EXCEPT ![g].pc = "scan"]
          /\ UNCHANGED <<hup, serving>>
       \/ Return(g, TRUE)
    /\ UNCHANGED <<config, heap, handlers, storeSize>>
    /\ UNCHANGED <<storeVars, finishVars, finders, wordVars>>

\* scanner.Scan() gives one more line: store.Add(sig, uint64(id))
LoadAdd(g) ==
    /\ loaders[g].pc = "scan"
    /\ heap[loaders[g].store].adds < MaxLines
    /\ heap' = [heap EXCEPT ![loaders[g].store].adds = @ + 1]
    /\ UNCHANGED <<config, loaders, hup, handlers, serving, storeSize>>
    /\ UNCHANGED <<storeVars, finishVars, finders, wordVars>>

\* a Finish call that is followed by UpdateConfig before the sort is awaited
LoadFinishCallPublishing(g) ==
    /\ loaders[g].pc = "scan"
    /\ heap' = [heap EXCEPT ![loaders[g].store].finish = "running"]
    /\ config' = loaders[g].store
    /\ loaders' = [loaders EXCEPT ![g].pc = "wait"]
    /\ UNCHANGED <<hup, handlers, serving, storeSize>>
    /\ UNCHANGED <<storeVars, finishVars, finders, wordVars>>

\* scanner.Scan() is false, and store.Finish() is called
LoadFinishCall(g) ==
    /\ loaders[g].pc = "scan"
    /\ heap' = [heap EXCEPT ![loaders[g].store].finish = "running"]
    /\ loaders' = [loaders EXCEPT ![g].pc = "wait"]
    /\ UNCHANGED <<config, hup, handlers, serving, storeSize>>
    /\ UNCHANGED <<storeVars, finishVars, finders, wordVars>>

\* store.Finish() returns
LoadFinishReturn(g) ==
    /\ loaders[g].pc = "wait"
    /\ heap' = [heap EXCEPT ![loaders[g].store].finish = "done"]
    /\ loaders' = [loaders EXCEPT ![g].pc = "publish"]
    /\ UNCHANGED <<config, hup, handlers, serving, storeSize>>
    /\ UNCHANGED <<storeVars, finishVars, finders, wordVars>>

\* UpdateConfig(&Config{store: store, vptree: vpt}); return nil
LoadPublish(g) ==
    /\ loaders[g].pc = "publish"
    /\ config' = loaders[g].store
    /\ Return(g, FALSE)
    /\ UNCHANGED <<heap, handlers, storeSize>>
    /\ UNCHANGED <<storeVars, finishVars, finders, wordVars>>

\* a request for /search arrives and its sig parses
SearchRequest(h) ==
    /\ serving
    /\ handlers[h].pc = "idle"
    /\ handlers' = [handlers EXCEPT ![h].pc = "parsed"]
    /\ UNCHANGED <<config, heap, loaders, hup, serving, storeSize>>
    /\ UNCHANGED <<storeVars, finishVars, finders, wordVars>>

\* store := CurrentConfig().store
SearchLoad(h) ==
    /\ handlers[h].pc = "parsed"
    /\ handlers' = [handlers EXCEPT ![h] = [pc |-> "loaded", store |-> CurrentConfig]]
    /\ UNCHANGED <<config, heap, loaders, hup, serving, storeSize>>
    /\ UNCHANGED <<storeVars, finishVars, finders, wordVars>>

\* matches := store.Find(sig64) is running
SearchFind(h) ==
    /\ handlers[h].pc = "loaded"
    /\ handlers' = [handlers EXCEPT ![h].pc = "finding"]
    /\ UNCHANGED <<config, heap, loaders, hup, serving, storeSize>>
    /\ UNCHANGED <<storeVars, finishVars, finders, wordVars>>

\* Find has returned and the matches are encoded
SearchReturn(h) ==
    /\ handlers[h].pc = "finding"
    /\ handlers' = [handlers EXCEPT ![h] = NotSearching]
    /\ UNCHANGED <<config, heap, loaders, hup, serving, storeSize>>
    /\ UNCHANGED <<storeVars, finishVars, finders, wordVars>>

NextSimd ==
    \/ Sighup
    \/ ReloadRequest
    \/ \E g \in Loaders : LoadCount(g)
    \/ \E g \in Loaders : LoadNew(g)
    \/ \E g \in Loaders : LoadOpen(g)
    \/ \E g \in Loaders : LoadAdd(g)
    \/ \E g \in Loaders : LoadFinishCall(g)
    \/ \E g \in Loaders : LoadFinishReturn(g)
    \/ \E g \in Loaders : LoadPublish(g)
    \/ \E h \in Searchers : SearchRequest(h)
    \/ \E h \in Searchers : SearchLoad(h)
    \/ \E h \in Searchers : SearchFind(h)
    \/ \E h \in Searchers : SearchReturn(h)

SpecSimd == InitSimd /\ [][NextSimd]_vars

\* the stores a handler has obtained from CurrentConfig and may call Find on
Obtained == {handlers[h].store : h \in {k \in Searchers : handlers[k].pc \in {"loaded", "finding"}}}

\* C9: every store a searchHandler obtains from CurrentConfig has had all its
\* Adds and its Finish return, and no step changes a store that is published,
\* held by a handler or finished
C9_PublishedAfterBuild ==
    /\ [](\A id \in Obtained \cup ({config} \ {0}) :
              id \in 1..Len(heap) /\ heap[id].finish = "done")
    /\ [][\A id \in 1..Len(heap) :
              (id = config \/ id \in Obtained \/ heap[id].finish = "done")
                  => heap'[id] = heap[id]]_vars

\* a handler runs Find on the store of the first load while a reload, having
\* added the lines of its own store, has that store sorted
C9_Witness ==
    \E h \in Searchers, g \in Loaders :
        /\ handlers[h].pc = "finding"
        /\ handlers[h].store = 1
        /\ loaders[g].pc = "wait"
        /\ loaders[g].store # handlers[h].store
        /\ heap[loaders[g].store].adds = MaxLines
        /\ config # handlers[h].store

\* the step in which the loadConfig called by the SIGHUP loop returns an error
FailedReload ==
    /\ loaders["hup"].pc \in {"count", "new", "open"}
    /\ loaders'["hup"].pc = "idle"

\* C10: a loadConfig that fails in the SIGHUP loop leaves the published Config
\* as it is and the loop receiving, so that the next SIGHUP starts a new load
C10_FailedReloadIgnored ==
    [][FailedReload => (config' = config /\ hup' = "recv")]_vars

=============================================================================
